---- MODULE Spec2Model ----
(***************************************************************************)
(* Model of the video ingestion and frame-sampling pipeline                *)
(* (utils/frameExtractor.js: downloadDirect, resolveTikTokUrl,             *)
(* downloadWithYtDlp, extractFrames).                                      *)
(*                                                                         *)
(* One invocation of extractFrames is a state machine whose steps are the  *)
(* continuations between two awaits.  The network, the external processes  *)
(* and the file system reads are the environment: every outcome they can   *)
(* produce is a nondeterministic choice of the step that awaits them.      *)
(*                                                                         *)
(* Durations are counted in tenths of a second (32.4s is 324), timestamps  *)
(* in whole seconds, candidate sample points in milliseconds.              *)
(***************************************************************************)
EXTENDS Integers, Sequences, FiniteSets, TLC

----------------------------------------------------------------------------
(* Bounds of the model *)

\* largest duration the prober reports, in tenths of a second
MaxDuration == 330

\* longest manual timestamp list
MaxManualLen == 2

\* last millisecond of the clock while two invocations run side by side
MaxClock == 2

----------------------------------------------------------------------------
(* Program constants *)

\* stat.size < 1000 is a failed CDN response
MinSize == 1000

\* metadata.format.duration || 30, in tenths of a second
FallbackDuration == 300

\* .slice(0, 5)
MaxFrames == 5

\* const MAX_RETRIES = 3 of transcribeAudio
MaxRetries == 3

\* Date.now() of the invocation
videoId == 1

----------------------------------------------------------------------------
(* Inputs and environment outcomes *)

\* entries a caller may put in manualTimestamps (40 is past every duration)
ManualStamps == {0, 5, 40}

ManualLists == UNION {[1..n -> ManualStamps] : n \in 0..MaxManualLen}

\* sizes in bytes of a file a download leaves on disk
Sizes == {0, 999, 1000, 250000}

\* durations ffprobe reports, 0 standing for an absent or zero duration
ProbedDurations == 0..MaxDuration

\* the string 'N/A' that ffprobe prints for a container without a known
\* duration and that the parser of its output leaves a string
NotAvailable == -1

\* the durations of the videos the whole pipeline is run on: none reported,
\* 0.4s, 1.5s, 32.4s, and 'N/A'
PipelineDurations == {0, 4, 15, 324, NotAvailable}

\* error.cause?.code of a failed transcription request, "other" standing
\* for every code that is not a network one and for no code at all
CauseCodes == {"ETIMEDOUT", "ECONNRESET", "ENOTFOUND", "other"}

\* the causes the transcriptions after a whole pipeline run fail with
PipelineCauses == {"ETIMEDOUT", "other"}

\* bodies the resolution API answers with: code, and which play URLs it has
ApiResponses == [code : {0, -1}, hasData : BOOLEAN,
                 play : BOOLEAN, hdplay : BOOLEAN, wmplay : BOOLEAN]

\* the bodies the whole pipeline is run on: all three URLs, no play URL,
\* only the watermarked one, none at all, and an error code
PipelineResponses ==
    {[code |-> 0, hasData |-> TRUE, play |-> TRUE, hdplay |-> TRUE,
      wmplay |-> TRUE],
     [code |-> 0, hasData |-> TRUE, play |-> FALSE, hdplay |-> TRUE,
      wmplay |-> TRUE],
     [code |-> 0, hasData |-> TRUE, play |-> FALSE, hdplay |-> FALSE,
      wmplay |-> TRUE],
     [code |-> 0, hasData |-> TRUE, play |-> FALSE, hdplay |-> FALSE,
      wmplay |-> FALSE],
     [code |-> -1, hasData |-> TRUE, play |-> TRUE, hdplay |-> TRUE,
      wmplay |-> TRUE]}

----------------------------------------------------------------------------
(* Error messages *)

ErrAxios == "axios request failed"
ErrHttp == "Download failed: HTTP"
ErrStream == "stream error"
ErrTooSmall == "Downloaded file is too small"
ErrTikwm == "tikwm API failed to resolve TikTok video URL."
ErrNoYtDlp == "yt-dlp not available on this server."
ErrYtDlp == "yt-dlp failed"
ErrNotCreated == "Video download failed - file not created."
ErrProbe == "ffprobe failed"
ErrToFixed == "duration.toFixed is not a function"
ErrNoFrames == "Failed to extract any DNA samples."
ErrAudio == "audio transcode failed"

----------------------------------------------------------------------------
(* Paths in os.tmpdir() *)

videoPath == <<"socially_video", videoId, -1>>

audioPath == <<"audio", videoId, -1>>

framePath(timestamp) == <<"frame", videoId, timestamp>>

----------------------------------------------------------------------------
(* Pure helpers *)

Min(a, b) == IF a < b THEN a ELSE b

\* Math.floor of a value given in milliseconds, in seconds
Floor(ms) == ms \div 1000

\* the candidates with the last one at three quarters of the duration
Candidates_ThreeQuarters(d) == <<0, Min(2000, 10 * d), 25 * d, 50 * d, 75 * d>>

\* [0, Math.min(2, duration * 0.1), duration * 0.25, duration * 0.5,
\*  duration * 0.9], in milliseconds, for a duration in tenths of a second
Candidates(d) == <<0, Min(2000, 10 * d), 25 * d, 50 * d, 90 * d>>

InSeq(x, s) == \E i \in 1..Len(s) : s[i] = x

RECURSIVE Dedupe(_)
\* [...new Set(s)]: first occurrences, in insertion order
Dedupe(s) ==
    IF s = <<>> THEN <<>>
    ELSE LET front == Dedupe(SubSeq(s, 1, Len(s) - 1))
             last == s[Len(s)]
         IN IF InSeq(last, front) THEN front ELSE Append(front, last)

\* .slice(0, n)
Slice(s, n) == SubSeq(s, 1, Min(n, Len(s)))

\* t < duration, t in seconds and the duration in tenths of a second;
\* t < 'N/A' is false
BeforeEnd(t, d) == d # NotAvailable /\ 10 * t < d

\* metadata.format.duration || 30: an absent or zero duration is falsy, the
\* string 'N/A' is not
EffectiveDuration(probed) == IF probed = 0 THEN FallbackDuration ELSE probed

----------------------------------------------------------------------------
(* The pure parts of the pipeline *)

\* the default sampler without the deduplication
DefaultTimestamps_NoDedupe(d) ==
    LET floored == [i \in 1..Len(Candidates(d)) |-> Floor(Candidates(d)[i])]
    IN Slice(SelectSeq(floored, LAMBDA t : BeforeEnd(t, d)), MaxFrames)

\* the default sampler: candidates floored, deduplicated, filtered, sliced
DefaultTimestamps(d) ==
    LET floored == [i \in 1..Len(Candidates(d)) |-> Floor(Candidates(d)[i])]
    IN Slice(SelectSeq(Dedupe(floored), LAMBDA t : BeforeEnd(t, d)), MaxFrames)

\* let timestamps = manualTimestamps; if (!timestamps) { ... }
SampleTimestamps(given, manual, d) ==
    IF given THEN manual ELSE DefaultTimestamps(d)

\* the other implementation of resolveTikTokUrl in the repository:
\* data.data.hdplay || data.data.play || data.data.wmplay
ResolvedUrlAlternate(resp) ==
    IF resp.code = 0 /\ resp.hasData
    THEN IF resp.hdplay THEN "hdplay"
         ELSE IF resp.play THEN "play"
         ELSE IF resp.wmplay THEN "wmplay"
         ELSE ""
    ELSE ""

\* data.data.play || data.data.hdplay || data.data.wmplay, "" when it throws
ResolvedUrl(resp) ==
    IF resp.code = 0 /\ resp.hasData
    THEN IF resp.play THEN "play"
         ELSE IF resp.hdplay THEN "hdplay"
         ELSE IF resp.wmplay THEN "wmplay"
         ELSE ""
    ELSE ""

\* a write stream opened before the status is looked at
AfterRejectedStatus_Created(fs) == fs \cup {videoPath}

\* the files after downloadDirect has thrown on the status: createWriteStream
\* comes after the status test
AfterRejectedStatus(fs) == fs

\* a size check that only rejects an empty file
SizeAccepted_NonEmpty(size) == size > 0

\* the size check that ends downloadDirect
SizeAccepted(size) == ~(size < MinSize)

\* frames.push({ timestamp, base64, mimeType: 'image/jpeg' })
PushFrame(fr, timestamp) ==
    Append(fr, [timestamp |-> timestamp, mimeType |-> "image/jpeg"])

\* if (fs.existsSync(p)) fs.unlinkSync(p)
Unlink(fs, p) == fs \ {p}

\* the cleanup before a successful return
CleanupVideo(fs) == Unlink(fs, videoPath)

\* a catch block that rethrows without deleting the video
CatchCleanup_Keep(fs) == fs

\* the cleanup of the outer catch block
CatchCleanup(fs) == Unlink(fs, videoPath)

\* every reference goes through the resolution API
ViaResolver_Always(tiktok) == TRUE

\* if (isTikTok) { resolveTikTokUrl ... } else { downloadDirect(videoUrl) }
ViaResolver(tiktok) == tiktok

\* no inner try/catch: every download failure reaches the outer catch
OnDownloadFailure_Throw(tiktok) == "throw"

\* what a failed API strategy or direct download leads to: the inner
\* try/catch exists on the TikTok branch only
OnDownloadFailure(tiktok) == IF tiktok THEN "fallback" ELSE "throw"

\* a check after the loop that never fires
NoFrames_Never(fr) == FALSE

\* if (frames.length === 0) throw
NoFrames(fr) == fr = <<>>

\* an audio failure the pipeline puts up with: the frames are returned
OnAudioFailure_Tolerate == "return"

\* what a rejected audio transcode leads to: nothing catches it before the
\* outer catch block
OnAudioFailure == "throw"

\* a catch block that throws a new error of its own
Rethrow_Wrapped(err) == "Extraction failed"

\* throw error: the error caught is the error thrown
Rethrow(err) == err

\* an error handler that starts the accurate seek whatever failed
SeekFallback_Retry(seek) == "accurate"

\* what the error handler of a capture does: the handler of the fast seek
\* starts the accurate seek, the handler of the accurate seek rejects
SeekFallback(seek) == IF seek = "fast" THEN "accurate" ELSE "reject"

\* the positions at which extractFrames awaits a network call or a process
Waits == {"resolving", "requesting", "streaming", "ytdlp", "probing",
          "fastSeek", "accurateSeek", "audio"}

\* the calls given a timeout: the media request (timeout: 90000, which also
\* ends an idle body stream) and the yt-dlp subprocess (timeout: 120000)
HasTimeout(call) == call \in {"requesting", "streaming", "ytdlp"}

\* a per-timestamp catch block that rethrows
OnFrameFailure_Throw == "throw"

\* what the catch block of the per-timestamp loop does with a failure
OnFrameFailure == "skip"

----------------------------------------------------------------------------
(* State *)

VARIABLES
    pc,                \* position of the invocation
    isTikTok,          \* videoUrl.includes('tiktok.com')
    manualGiven,       \* manualTimestamps is not null
    manualTimestamps,  \* the override list, <<>> when null
    files,             \* paths that exist in the transient directory
    videoBytes,        \* size of the file at videoPath, 0 when absent
    directUrl,         \* which play URL the API strategy resolved to
    duration,          \* the duration used for sampling, tenths of a second
    timestamps,        \* the timestamp list of the loop
    idx,               \* index in timestamps of the current iteration
    frames,            \* the frames pushed so far
    captured,          \* per attempted timestamp: did it yield a frame
    calls,             \* external operations started, in order, and the
                       \* failure of the audio transcode
    strategyFailed,    \* download strategies that have failed
    error,             \* message of the error thrown to the caller
    returned,          \* a result {frames, audioPath} was returned
    ytdlpInstalled,    \* a yt-dlp binary exists on this server
    directResult,      \* how downloadDirect ended: "", "ok" or its error
    directSize,        \* the stat.size downloadDirect saw, -1 before that
    hung,              \* the call awaited at pc will never complete
    now,               \* two invocations side by side: Date.now()
    invPc,             \* ... the position of each invocation
    invId,             \* ... the videoId of each, 0 before it starts
    disk,              \* ... per path the invocation that wrote it, or 0
    foreign,           \* ... accesses to a file written by the other one
    consumer,          \* the caller that received the result, "" before
    consumerPc,        \* position of that caller
    attempt,           \* the attempt transcribeAudio is at
    apiResponse,       \* the body the resolution API answered with, if any
    apiKey,            \* process.env.GROQ_API_KEY is set
    failures,          \* cause codes of the failed transcription attempts
    outcome            \* how transcribeAudio ended: "", "transcript", "error"

vars == <<pc, isTikTok, manualGiven, manualTimestamps, files, videoBytes,
          directUrl, duration, timestamps, idx, frames, captured, calls,
          strategyFailed, error, returned, ytdlpInstalled, directResult,
          directSize, hung, now, invPc, invId, disk, foreign, consumer,
          consumerPc, attempt, apiResponse, apiKey, failures, outcome>>

\* what the caller and the server give the invocation
given == <<isTikTok, manualGiven, manualTimestamps, ytdlpInstalled>>

inputs == <<given, apiResponse>>

direct == <<directResult, directSize>>

sampling == <<duration, timestamps, idx, frames, captured>>

\* the state of the caller of extractFrames
transcriber == <<attempt, failures, outcome>>

outside == <<consumer, consumerPc, apiKey, transcriber>>

\* the state of one invocation, its environment and its caller
single == <<pc, inputs, files, videoBytes, directUrl, sampling, calls,
            strategyFailed, error, returned, direct, hung, outside>>

\* the state of two invocations side by side
side == <<now, invPc, invId, disk, foreign>>

\* what no step of the single invocation changes
beyond == <<side, outside>>

others == <<hung, beyond>>

\* the invocations that run side by side
Invocations == {1, 2}

\* the paths an invocation with the given videoId uses, with one timestamp
videoPathOf(id) == <<"socially_video", id, -1>>

audioPathOf(id) == <<"audio", id, -1>>

framePathOf(id, timestamp) == <<"frame", id, timestamp>>

SidePaths ==
    {videoPathOf(id) : id \in 1..MaxClock}
        \cup {audioPathOf(id) : id \in 1..MaxClock}
        \cup {framePathOf(id, 0) : id \in 1..MaxClock}

\* the handlers that call extractFrames and transcribeAudio answer 503
\* before anything else when the key is not set
OutsideInit ==
    /\ consumer = ""
    /\ consumerPc = ""
    /\ apiKey = TRUE
    /\ attempt = 0
    /\ failures = <<>>
    /\ outcome = ""

SideInit ==
    /\ now = 1
    /\ invPc = [i \in Invocations |-> "idle"]
    /\ invId = [i \in Invocations |-> 0]
    /\ disk = [p \in SidePaths |-> 0]
    /\ foreign = {}

Init ==
    /\ pc = "start"
    /\ isTikTok \in BOOLEAN
    /\ manualGiven \in BOOLEAN
    /\ manualTimestamps \in (IF manualGiven THEN ManualLists ELSE {<<>>})
    /\ files = {}
    /\ videoBytes = 0
    /\ directUrl = ""
    /\ duration = 0
    /\ timestamps = <<>>
    /\ idx = 0
    /\ frames = <<>>
    /\ captured = <<>>
    /\ calls = <<>>
    /\ strategyFailed = {}
    /\ error = ""
    /\ returned = FALSE
    /\ ytdlpInstalled \in BOOLEAN
    /\ directResult = ""
    /\ directSize = -1
    /\ hung = FALSE
    /\ apiResponse = <<>>
    /\ SideInit
    /\ OutsideInit

----------------------------------------------------------------------------
(* Continuations shared by several steps *)

\* an error reaches the outer catch block: cleanup, then rethrow
Throw(err, fs, size) ==
    /\ pc' = "failed"
    /\ error' = Rethrow(err)
    /\ files' = CatchCleanup(fs)
    /\ videoBytes' = IF videoPath \in CatchCleanup(fs) THEN size ELSE 0

\* the API strategy (resolution or the download of the resolved URL) or the
\* direct download of the reference has failed with err; on the TikTok
\* branch the inner catch block calls downloadWithYtDlp, which looks for the
\* binary and either throws or starts the subprocess
DownloadFailed(name, err, fs, size) ==
    IF OnDownloadFailure(isTikTok) = "fallback"
    THEN /\ strategyFailed' = strategyFailed \cup {name}
         /\ IF ytdlpInstalled
                THEN /\ calls' = calls \o <<"downloadWithYtDlp", "exec">>
                     /\ pc' = "ytdlp"
                     /\ files' = fs
                     /\ videoBytes' = size
                     /\ error' = error
                ELSE /\ calls' = Append(calls, "downloadWithYtDlp")
                     /\ Throw(ErrNoYtDlp, fs, size)
    ELSE /\ strategyFailed' = strategyFailed \cup {name}
         /\ calls' = calls
         /\ Throw(err, fs, size)

\* a download has completed: the existence check, then ffprobe is started
DownloadDone(fs, size) ==
    IF videoPath \in fs
    THEN /\ pc' = "probing"
         /\ files' = fs
         /\ videoBytes' = size
         /\ error' = error
    ELSE Throw(ErrNotCreated, fs, size)

----------------------------------------------------------------------------
(* Resolution and download *)

\* extractFrames up to its first await
Start ==
    /\ pc = "start"
    /\ ~hung
    /\ UNCHANGED others
    /\ IF ViaResolver(isTikTok)
       THEN /\ pc' = "resolving"
            /\ calls' = Append(calls, "resolveTikTokUrl")
       ELSE /\ pc' = "requesting"
            /\ calls' = Append(calls, "downloadDirect")
    /\ UNCHANGED <<inputs, files, videoBytes, directUrl, sampling,
                   strategyFailed, error, returned, direct>>

\* the resolution API answers with a body of R that has a usable URL:
\* downloadDirect is called on it
ResolveOkFrom(R) ==
    /\ pc = "resolving"
    /\ ~hung
    /\ UNCHANGED others
    /\ \E resp \in R :
        /\ ResolvedUrl(resp) # ""
        /\ apiResponse' = <<resp>>
        /\ directUrl' = ResolvedUrl(resp)
    /\ pc' = "requesting"
    /\ calls' = Append(calls, "downloadDirect")
    /\ UNCHANGED <<given, files, videoBytes, sampling, strategyFailed,
                   error, returned, direct>>

ResolveOk == ResolveOkFrom(PipelineResponses)

\* the API request fails, or its answer, a body of R, has no usable URL
ResolveFailFrom(R) ==
    /\ pc = "resolving"
    /\ ~hung
    /\ UNCHANGED others
    /\ \/ /\ DownloadFailed("tikwm", ErrAxios, files, videoBytes)
          /\ UNCHANGED apiResponse
       \/ \E resp \in R :
            /\ ResolvedUrl(resp) = ""
            /\ apiResponse' = <<resp>>
            /\ DownloadFailed("tikwm", ErrTikwm, files, videoBytes)
    /\ UNCHANGED <<given, directUrl, sampling, returned, direct>>

ResolveFail == ResolveFailFrom(PipelineResponses)

\* the media request fails (network, timeout, status rejected by axios) or
\* answers with a status other than 200: nothing is written
RequestFail ==
    /\ pc = "requesting"
    /\ ~hung
    /\ UNCHANGED others
    /\ \E err \in {ErrAxios, ErrHttp} :
        /\ DownloadFailed(IF isTikTok THEN "tikwm" ELSE "direct", err,
                          AfterRejectedStatus(files), videoBytes)
        /\ directResult' = err
    /\ directUrl' = ""
    /\ UNCHANGED <<inputs, sampling, returned, directSize>>

\* status 200: the body is piped to a write stream on destPath
RequestOk ==
    /\ pc = "requesting"
    /\ ~hung
    /\ UNCHANGED others
    /\ pc' = "streaming"
    /\ UNCHANGED <<inputs, files, videoBytes, directUrl, sampling, calls,
                   strategyFailed, error, returned, direct>>

\* the stream breaks: what was written so far, if anything, stays on disk
StreamError ==
    /\ pc = "streaming"
    /\ ~hung
    /\ UNCHANGED others
    /\ \E partial \in BOOLEAN, size \in Sizes :
        /\ ~partial => size = 0
        /\ DownloadFailed(IF isTikTok THEN "tikwm" ELSE "direct", ErrStream,
                          IF partial THEN files \cup {videoPath} ELSE files,
                          size)
    /\ directResult' = ErrStream
    /\ directUrl' = ""
    /\ UNCHANGED <<inputs, sampling, returned, directSize>>

\* the stream finishes: the size check, then the caller's continuation
StreamFinish ==
    /\ pc = "streaming"
    /\ ~hung
    /\ UNCHANGED others
    /\ \E size \in Sizes :
        /\ directSize' = size
        /\ IF SizeAccepted(size)
           THEN /\ directResult' = "ok"
                /\ DownloadDone(files \cup {videoPath}, size)
                /\ calls' = Append(calls, "ffprobe")
                /\ UNCHANGED strategyFailed
           ELSE /\ directResult' = ErrTooSmall
                /\ DownloadFailed(IF isTikTok THEN "tikwm" ELSE "direct",
                                  ErrTooSmall, files \cup {videoPath}, size)
    /\ directUrl' = ""
    /\ UNCHANGED <<inputs, sampling, returned>>

\* the subprocess exits with an error or is killed by the timeout
YtDlpFail ==
    /\ pc = "ytdlp"
    /\ ~hung
    /\ UNCHANGED others
    /\ strategyFailed' = strategyFailed \cup {"yt-dlp"}
    /\ Throw(ErrYtDlp, files, videoBytes)
    /\ UNCHANGED <<inputs, directUrl, sampling, calls, returned, direct>>

\* the subprocess exits with code 0, having written destPath or not
YtDlpExit ==
    /\ pc = "ytdlp"
    /\ ~hung
    /\ UNCHANGED others
    /\ \E written \in BOOLEAN, size \in Sizes :
        /\ ~written => size = videoBytes
        /\ DownloadDone(IF written THEN files \cup {videoPath} ELSE files,
                        size)
    /\ calls' = IF pc' = "probing" THEN Append(calls, "ffprobe") ELSE calls
    /\ strategyFailed' = IF pc' = "probing" THEN strategyFailed
                         ELSE strategyFailed \cup {"yt-dlp"}
    /\ UNCHANGED <<inputs, directUrl, sampling, returned, direct>>

----------------------------------------------------------------------------
(* Probing, sampling and the per-timestamp loop *)

\* the code after the loop: it throws when no frame was pushed and starts
\* the audio transcode otherwise
AfterLoop(fs, fr) ==
    IF NoFrames(fr)
    THEN /\ Throw(ErrNoFrames, fs, videoBytes)
         /\ UNCHANGED calls
    ELSE /\ pc' = "audio"
         /\ calls' = Append(calls, "audio")
         /\ files' = fs
         /\ UNCHANGED <<videoBytes, error>>

\* the loop moves on: the next capture, or the code after the loop
NextIteration(fs, fr) ==
    IF idx < Len(timestamps)
    THEN /\ idx' = idx + 1
         /\ pc' = "fastSeek"
         /\ files' = fs
         /\ UNCHANGED <<videoBytes, calls, error>>
    ELSE /\ idx' = idx
         /\ AfterLoop(fs, fr)

\* the capture of the current timestamp, or the read of its file, has thrown
FrameFailed(err, fs) ==
    /\ frames' = frames
    /\ captured' = Append(captured, FALSE)
    /\ IF OnFrameFailure = "skip"
       THEN NextIteration(fs, frames)
       ELSE /\ Throw(err, fs, videoBytes)
            /\ UNCHANGED <<idx, calls>>

\* ffmpeg has failed, leaving the files fs: the error handler of that seek
SeekFailed(seek, fs) ==
    IF SeekFallback(seek) = "accurate"
    THEN /\ pc' = "accurateSeek"
         /\ files' = fs
         /\ UNCHANGED <<idx, frames, captured, videoBytes, calls, error>>
    ELSE FrameFailed("ffmpeg failed", fs)

\* ffmpeg has ended without error: the frame file, when there is one, is
\* read, pushed and deleted
FrameCaptured(fs) ==
    LET path == framePath(timestamps[idx])
    IN IF path \in fs
       THEN \E readable \in BOOLEAN :
              IF readable
              THEN /\ frames' = PushFrame(frames, timestamps[idx])
                   /\ captured' = Append(captured, TRUE)
                   /\ NextIteration(Unlink(fs, path), frames')
              ELSE FrameFailed("readFileSync failed", fs)
       ELSE /\ frames' = frames
            /\ captured' = Append(captured, FALSE)
            /\ NextIteration(fs, frames)

\* ffprobe cannot read the file
ProbeFail ==
    /\ pc = "probing"
    /\ ~hung
    /\ UNCHANGED others
    /\ Throw(ErrProbe, files, videoBytes)
    /\ UNCHANGED <<inputs, directUrl, sampling, calls, strategyFailed,
                   returned, direct>>

\* ffprobe answers with a duration of D: the duration, the timestamps, the
\* log line with duration.toFixed(1), which throws on a string, the start of
\* the loop
Probe(D) ==
    /\ pc = "probing"
    /\ ~hung
    /\ UNCHANGED others
    /\ \E probed \in D :
        /\ duration' = EffectiveDuration(probed)
        /\ timestamps' = SampleTimestamps(manualGiven, manualTimestamps,
                                          duration')
    /\ IF duration' = NotAvailable
       THEN /\ idx' = 0
            /\ Throw(ErrToFixed, files, videoBytes)
            /\ UNCHANGED calls
       ELSE IF timestamps' = <<>>
       THEN /\ idx' = 0
            /\ AfterLoop(files, frames)
       ELSE /\ idx' = 1
            /\ pc' = "fastSeek"
            /\ UNCHANGED <<files, videoBytes, error, calls>>
    /\ UNCHANGED <<inputs, directUrl, frames, captured, strategyFailed,
                   returned, direct>>

ProbeOk == Probe(PipelineDurations)

\* the capture with the fast input seek ends
FastSeekOk ==
    /\ pc = "fastSeek"
    /\ ~hung
    /\ UNCHANGED others
    /\ \E written \in BOOLEAN :
        FrameCaptured(IF written
                      THEN files \cup {framePath(timestamps[idx])}
                      ELSE files)
    /\ UNCHANGED <<inputs, directUrl, duration, timestamps, strategyFailed,
                   returned, direct>>

\* the capture with the fast input seek fails: the accurate seek is started
FastSeekError ==
    /\ pc = "fastSeek"
    /\ ~hung
    /\ UNCHANGED others
    /\ \E partial \in BOOLEAN :
        SeekFailed("fast",
                   IF partial
                   THEN files \cup {framePath(timestamps[idx])}
                   ELSE files)
    /\ UNCHANGED <<inputs, directUrl, duration, timestamps, strategyFailed,
                   returned, direct>>

\* the capture with the accurate seek ends
AccurateSeekOk ==
    /\ pc = "accurateSeek"
    /\ ~hung
    /\ UNCHANGED others
    /\ \E written \in BOOLEAN :
        FrameCaptured(IF written
                      THEN files \cup {framePath(timestamps[idx])}
                      ELSE files)
    /\ UNCHANGED <<inputs, directUrl, duration, timestamps, strategyFailed,
                   returned, direct>>

\* the capture with the accurate seek fails too: the timestamp is skipped
AccurateSeekError ==
    /\ pc = "accurateSeek"
    /\ ~hung
    /\ UNCHANGED others
    /\ \E partial \in BOOLEAN :
        SeekFailed("accurate",
                   IF partial
                   THEN files \cup {framePath(timestamps[idx])}
                   ELSE files)
    /\ UNCHANGED <<inputs, directUrl, duration, timestamps, strategyFailed,
                   returned, direct>>

----------------------------------------------------------------------------
(* Audio and return *)

\* the transcode ends: the video is deleted and the result returned
AudioOk ==
    /\ pc = "audio"
    /\ ~hung
    /\ UNCHANGED others
    /\ files' = CleanupVideo(files \cup {audioPath})
    /\ videoBytes' = IF videoPath \in files' THEN videoBytes ELSE 0
    /\ pc' = "done"
    /\ returned' = TRUE
    /\ UNCHANGED <<inputs, directUrl, sampling, calls, strategyFailed,
                   error, direct>>

\* the transcode fails, leaving what it wrote of its output or nothing
AudioError ==
    /\ pc = "audio"
    /\ ~hung
    /\ UNCHANGED others
    /\ \E partial \in BOOLEAN :
        LET fs == IF partial THEN files \cup {audioPath} ELSE files
        IN IF OnAudioFailure = "throw"
           THEN /\ Throw(ErrAudio, fs, videoBytes)
                /\ UNCHANGED returned
           ELSE /\ pc' = "done"
                /\ returned' = TRUE
                /\ files' = CleanupVideo(fs)
                /\ videoBytes' = IF videoPath \in files' THEN videoBytes ELSE 0
                /\ UNCHANGED error
    /\ calls' = Append(calls, "audio failed")
    /\ UNCHANGED <<inputs, directUrl, sampling, strategyFailed, direct>>

\* the server or the process awaited never answers, and the call has no
\* timeout that would end the wait
NeverResponds ==
    /\ pc \in Waits
    /\ ~HasTimeout(pc)
    /\ ~hung
    /\ hung' = TRUE
    /\ UNCHANGED <<pc, inputs, files, videoBytes, directUrl, sampling, calls,
                   strategyFailed, error, returned, direct, beyond>>

----------------------------------------------------------------------------
(* The resolver alone, on every body the API can answer with *)

ResolverInit ==
    /\ pc = "resolving"
    /\ isTikTok = TRUE
    /\ manualGiven \in BOOLEAN
    /\ manualTimestamps \in (IF manualGiven THEN ManualLists ELSE {<<>>})
    /\ files = {}
    /\ videoBytes = 0
    /\ directSize = -1
    /\ directUrl = ""
    /\ duration = 0
    /\ timestamps = <<>>
    /\ idx = 0
    /\ frames = <<>>
    /\ captured = <<>>
    /\ calls = <<"resolveTikTokUrl">>
    /\ strategyFailed = {}
    /\ error = ""
    /\ returned = FALSE
    /\ ytdlpInstalled \in BOOLEAN
    /\ directResult = ""
    /\ hung = FALSE
    /\ apiResponse = <<>>
    /\ SideInit
    /\ OutsideInit

ResolveOkAny == ResolveOkFrom(ApiResponses)

\* the same step with the other implementation of resolveTikTokUrl
ResolveOkAlternate ==
    /\ pc = "resolving"
    /\ ~hung
    /\ UNCHANGED others
    /\ \E resp \in ApiResponses :
        /\ ResolvedUrlAlternate(resp) # ""
        /\ apiResponse' = <<resp>>
        /\ directUrl' = ResolvedUrlAlternate(resp)
    /\ pc' = "requesting"
    /\ calls' = Append(calls, "downloadDirect")
    /\ UNCHANGED <<given, files, videoBytes, sampling, strategyFailed,
                   error, returned, direct>>

ResolveFailAny == ResolveFailFrom(ApiResponses)

ResolverNext ==
    \/ ResolveOkAny
    \/ ResolveOkAlternate
    \/ ResolveFailAny

ResolverSpec == ResolverInit /\ [][ResolverNext]_vars

----------------------------------------------------------------------------
(* The callers of extractFrames, from the moment they receive the result *)

\* the pipeline part of the state, which no caller changes
pipeline == <<pc, inputs, videoBytes, directUrl, sampling, calls,
              strategyFailed, error, returned, direct, hung, side>>

\* a catch block of transcribeAudio that retries whatever the cause
IsNetworkError_Any(code) == TRUE

\* ['ETIMEDOUT', 'ECONNRESET', 'ENOTFOUND'].includes(error.cause?.code)
IsNetworkError(code) == code \in {"ETIMEDOUT", "ECONNRESET", "ENOTFOUND"}

\* POST /api/analyze-video-url, after its check of the key: const { frames,
\* audioPath } = await extractFrames(videoUrl), then transcribeAudio(
\* audioPath) in a try block
AnalyzeVideoUrl ==
    /\ pc = "done"
    /\ consumer = ""
    /\ apiKey
    /\ consumer' = "analyze-video-url"
    /\ consumerPc' = "called"
    /\ UNCHANGED <<pipeline, files, apiKey, transcriber>>

\* POST /api/generate-script: const frames = await extractFrames(...), the
\* result goes to analyzeVideoFrames and the audio path is never looked at
GenerateScript ==
    /\ pc = "done"
    /\ consumer = ""
    /\ consumer' = "generate-script"
    /\ consumerPc' = "finished"
    /\ UNCHANGED <<pipeline, files, apiKey, transcriber>>

\* the extract_dna script: const frames = await extractFrames(ad.video_url)
ExtractDna ==
    /\ pc = "done"
    /\ consumer = ""
    /\ consumer' = "extract-dna"
    /\ consumerPc' = "finished"
    /\ UNCHANGED <<pipeline, files, apiKey, transcriber>>

\* transcribeAudio up to its first request: it throws without the key
TranscribeEnter ==
    /\ consumerPc = "called"
    /\ IF apiKey
       THEN /\ consumerPc' = "transcribing"
            /\ attempt' = 1
            /\ UNCHANGED outcome
       ELSE /\ consumerPc' = "finished"
            /\ outcome' = "error"
            /\ UNCHANGED attempt
    /\ UNCHANGED <<pipeline, files, consumer, apiKey, failures>>

\* transcribeAudio: the request on a file that exists succeeds, the file is
\* deleted and the text returned
TranscribeOk ==
    /\ consumerPc = "transcribing"
    /\ audioPath \in files
    /\ files' = Unlink(files, audioPath)
    /\ consumerPc' = "finished"
    /\ outcome' = "transcript"
    /\ UNCHANGED <<pipeline, consumer, apiKey, attempt, failures>>

\* transcribeAudio: the attempt fails with a cause of C (a missing file is
\* no network error); a network error before the last attempt is retried
\* after 2s, any other failure deletes the audio file and throws
TranscribeErrorFrom(C) ==
    /\ consumerPc = "transcribing"
    /\ \E code \in C :
        /\ audioPath \notin files => code = "other"
        /\ failures' = Append(failures, code)
        /\ IF attempt < MaxRetries /\ IsNetworkError(code)
           THEN /\ attempt' = attempt + 1
                /\ UNCHANGED <<files, consumerPc, outcome>>
           ELSE /\ files' = Unlink(files, audioPath)
                /\ consumerPc' = "finished"
                /\ outcome' = "error"
                /\ UNCHANGED attempt
    /\ UNCHANGED <<pipeline, consumer, apiKey>>

TranscribeError == TranscribeErrorFrom(PipelineCauses)

----------------------------------------------------------------------------
(* transcribeAudio alone, called on any path with or without the key *)

TranscriberInit ==
    /\ pc = "done"
    /\ isTikTok \in BOOLEAN
    /\ manualGiven = TRUE
    /\ manualTimestamps = <<0, 5>>
    /\ files \in SUBSET {audioPath, framePath(0), framePath(5)}
    /\ videoBytes = 0
    /\ directSize = 1000
    /\ directUrl = ""
    /\ duration = 324
    /\ timestamps = <<0, 5>>
    /\ idx = 2
    /\ frames = PushFrame(<<>>, 5)
    /\ captured = <<FALSE, TRUE>>
    /\ calls = <<"downloadDirect", "ffprobe", "audio">>
    /\ strategyFailed = {}
    /\ error = ""
    /\ returned = TRUE
    /\ ytdlpInstalled \in BOOLEAN
    /\ directResult = "ok"
    /\ hung = FALSE
    /\ apiResponse = <<>>
    /\ SideInit
    /\ consumer = "caller"
    /\ consumerPc = "called"
    /\ apiKey \in BOOLEAN
    /\ attempt = 0
    /\ failures = <<>>
    /\ outcome = ""

TranscribeErrorAny == TranscribeErrorFrom(CauseCodes)

TranscriberNext ==
    \/ TranscribeEnter
    \/ TranscribeOk
    \/ TranscribeErrorAny

TranscriberSpec == TranscriberInit /\ [][TranscriberNext]_vars

----------------------------------------------------------------------------

Next ==
    \/ Start
    \/ ResolveOk
    \/ ResolveFail
    \/ RequestFail
    \/ RequestOk
    \/ StreamError
    \/ StreamFinish
    \/ YtDlpFail
    \/ YtDlpExit
    \/ ProbeFail
    \/ ProbeOk
    \/ FastSeekOk
    \/ FastSeekError
    \/ AccurateSeekOk
    \/ AccurateSeekError
    \/ AudioOk
    \/ AudioError
    \/ NeverResponds
    \/ AnalyzeVideoUrl
    \/ GenerateScript
    \/ ExtractDna
    \/ TranscribeEnter
    \/ TranscribeOk
    \/ TranscribeError

Spec == Init /\ [][Next]_vars

\* the event loop runs every continuation that is ready, and every call
\* that can still complete or time out does so
LiveSpec == Init /\ [][Next]_vars /\ WF_vars(Next)

----------------------------------------------------------------------------
(* The sampler on its own: a video has been downloaded from a direct URL   *)
(* and ffprobe reports any duration up to MaxDuration.                     *)

SamplerInit ==
    /\ pc = "probing"
    /\ isTikTok = FALSE
    /\ manualGiven \in BOOLEAN
    /\ manualTimestamps \in (IF manualGiven THEN ManualLists ELSE {<<>>})
    /\ files = {videoPath}
    /\ videoBytes \in {size \in Sizes : SizeAccepted(size)}
    /\ directSize = videoBytes
    /\ directUrl = ""
    /\ duration = 0
    /\ timestamps = <<>>
    /\ idx = 0
    /\ frames = <<>>
    /\ captured = <<>>
    /\ calls = <<"downloadDirect", "ffprobe">>
    /\ strategyFailed = {}
    /\ error = ""
    /\ returned = FALSE
    /\ ytdlpInstalled \in BOOLEAN
    /\ directResult = "ok"
    /\ hung = FALSE
    /\ apiResponse = <<>>
    /\ SideInit
    /\ OutsideInit

ProbeAny == Probe(ProbedDurations)

SamplerNext == ProbeAny

SamplerSpec == SamplerInit /\ [][SamplerNext]_vars

----------------------------------------------------------------------------
(* Two invocations side by side in one transient directory.  Each takes    *)
(* its videoId from the clock, downloads, captures the frame at 0s, reads  *)
(* and deletes it, transcodes the audio and deletes its video.             *)

\* invocation i accesses path p: an access to a file the other invocation
\* wrote is recorded
Touch(i, op, p) ==
    IF disk[p] \notin {0, i}
    THEN {[by |-> i, op |-> op, path |-> p]}
    ELSE {}

\* the millisecond passes
Tick ==
    /\ now < MaxClock
    /\ now' = now + 1
    /\ UNCHANGED <<invPc, invId, disk, foreign, single>>

\* const videoId = Date.now(), and the download is started
Begin(i) ==
    /\ invPc[i] = "idle"
    /\ invId' = [invId EXCEPT ![i] = now]
    /\ invPc' = [invPc EXCEPT ![i] = "downloading"]
    /\ UNCHANGED <<now, disk, foreign, single>>

\* the download has written the video: the capture is started
Downloaded(i) ==
    /\ invPc[i] = "downloading"
    /\ foreign' = foreign \cup Touch(i, "overwrite", videoPathOf(invId[i]))
    /\ disk' = [disk EXCEPT ![videoPathOf(invId[i])] = i]
    /\ invPc' = [invPc EXCEPT ![i] = "capturing"]
    /\ UNCHANGED <<now, invId, single>>

\* the download has failed: the catch block deletes the video, if any
DownloadThrew(i) ==
    /\ invPc[i] = "downloading"
    /\ foreign' = foreign \cup Touch(i, "delete", videoPathOf(invId[i]))
    /\ disk' = [disk EXCEPT ![videoPathOf(invId[i])] = 0]
    /\ invPc' = [invPc EXCEPT ![i] = "failed"]
    /\ UNCHANGED <<now, invId, single>>

\* ffmpeg writes the frame file
FrameWritten(i) ==
    /\ invPc[i] = "capturing"
    /\ foreign' = foreign \cup Touch(i, "overwrite", framePathOf(invId[i], 0))
    /\ disk' = [disk EXCEPT ![framePathOf(invId[i], 0)] = i]
    /\ invPc' = [invPc EXCEPT ![i] = "reading"]
    /\ UNCHANGED <<now, invId, single>>

\* ffmpeg has ended: the frame file, if it is still there, is read and
\* deleted, and the audio transcode is started
FrameRead(i) ==
    /\ invPc[i] = "reading"
    /\ foreign' = foreign \cup Touch(i, "read", framePathOf(invId[i], 0))
    /\ disk' = [disk EXCEPT ![framePathOf(invId[i], 0)] = 0]
    /\ invPc' = [invPc EXCEPT ![i] = "transcoding"]
    /\ UNCHANGED <<now, invId, single>>

\* the transcode has written the audio: the video is deleted, the result
\* returned
Transcoded(i) ==
    /\ invPc[i] = "transcoding"
    /\ foreign' = foreign \cup Touch(i, "overwrite", audioPathOf(invId[i]))
                          \cup Touch(i, "delete", videoPathOf(invId[i]))
    /\ disk' = [disk EXCEPT ![audioPathOf(invId[i])] = i,
                            ![videoPathOf(invId[i])] = 0]
    /\ invPc' = [invPc EXCEPT ![i] = "done"]
    /\ UNCHANGED <<now, invId, single>>

\* the transcode has failed: the catch block deletes the video
TranscodeThrew(i) ==
    /\ invPc[i] = "transcoding"
    /\ foreign' = foreign \cup Touch(i, "delete", videoPathOf(invId[i]))
    /\ disk' = [disk EXCEPT ![videoPathOf(invId[i])] = 0]
    /\ invPc' = [invPc EXCEPT ![i] = "failed"]
    /\ UNCHANGED <<now, invId, single>>

SideBySideInit ==
    /\ pc = "start"
    /\ isTikTok = FALSE
    /\ manualGiven = FALSE
    /\ manualTimestamps = <<>>
    /\ files = {}
    /\ videoBytes = 0
    /\ directUrl = ""
    /\ duration = 0
    /\ timestamps = <<>>
    /\ idx = 0
    /\ frames = <<>>
    /\ captured = <<>>
    /\ calls = <<>>
    /\ strategyFailed = {}
    /\ error = ""
    /\ returned = FALSE
    /\ ytdlpInstalled = FALSE
    /\ directResult = ""
    /\ directSize = -1
    /\ hung = FALSE
    /\ apiResponse = <<>>
    /\ SideInit
    /\ OutsideInit

SideBySideNext ==
    \/ Tick
    \/ \E i \in Invocations : Begin(i)
    \/ \E i \in Invocations : Downloaded(i)
    \/ \E i \in Invocations : DownloadThrew(i)
    \/ \E i \in Invocations : FrameWritten(i)
    \/ \E i \in Invocations : FrameRead(i)
    \/ \E i \in Invocations : Transcoded(i)
    \/ \E i \in Invocations : TranscodeThrew(i)

SideBySideSpec == SideBySideInit /\ [][SideBySideNext]_vars

----------------------------------------------------------------------------
(* Properties *)

exited == pc \in {"done", "failed"}

sampled == pc \notin {"start", "resolving", "requesting", "streaming",
                      "ytdlp", "probing"}

frameFiles == {f \in files : f[1] = "frame"}

StrictlyAscending(s) == \A i \in 1..(Len(s) - 1) : s[i] < s[i + 1]

Position(x, s) == CHOOSE i \in 1..Len(s) : s[i] = x

\* C1: when an invocation has exited, by a return or by a throw at any
\* stage, its downloaded video file does not exist.
C1_VideoGoneAtExit == exited => videoPath \notin files

\* a run that downloaded a video, extracted frames and failed in the audio
\* transcode
C1_Witness ==
    /\ pc = "failed"
    /\ error = ErrAudio
    /\ frames # <<>>
    /\ videoPath \notin files

\* C2: when an invocation has exited, no per-timestamp frame file of it
\* exists, whatever happened to each capture.
C2_NoFrameFileAtExit == exited => frameFiles = {}

\* C3: after a successful return the audio file exists and is the only file
\* of the invocation in the transient directory.
C3_OnlyAudioRemains ==
    (pc = "done" /\ consumer = "") => files = {audioPath}

\* C4: without a manual override the sampled timestamps are naturals in
\* strictly ascending order (hence without duplicates), between 1 and 5 of
\* them, each strictly less than the duration.
C4_SamplerShape ==
    (sampled /\ ~manualGiven) =>
        /\ duration > 0
        /\ Len(timestamps) \in 1..5
        /\ StrictlyAscending(timestamps)
        /\ \A i \in 1..Len(timestamps) :
            /\ timestamps[i] \in Nat
            /\ 10 * timestamps[i] < duration

\* a duration under one second, where all five candidates floor to 0
C4_Witness ==
    /\ sampled
    /\ ~manualGiven
    /\ duration < 10
    /\ timestamps = <<0>>

\* the reference computation of the default sampler, in whole seconds for a
\* duration in tenths of a second: floor(0.1 d) = d div 100 and so on
Reference(d) ==
    LET c == <<0, Min(2, d \div 100), d \div 40, d \div 20, (9 * d) \div 100>>
        kept == {i \in 1..5 : /\ \A j \in 1..(i - 1) : c[j] # c[i]
                              /\ 10 * c[i] < d}
        nth(k) == CHOOSE i \in kept : Cardinality({j \in kept : j < i}) = k - 1
    IN [k \in 1..Min(5, Cardinality(kept)) |-> c[nth(k)]]

\* C5: without a manual override the sampled timestamps equal the reference
\* computation; 32.4s gives [0, 2, 8, 16, 29] and 1.5s gives [0, 1].
C5_SamplerMatchesReference ==
    (sampled /\ ~manualGiven) =>
        /\ timestamps = Reference(duration)
        /\ duration = 324 => timestamps = <<0, 2, 8, 16, 29>>
        /\ duration = 15 => timestamps = <<0, 1>>

\* the 32.4s example has been sampled
C5_Witness ==
    /\ sampled
    /\ ~manualGiven
    /\ duration = 324
    /\ Len(timestamps) = 5

\* C6: with a manual override, the timestamps of the loop are the entries of
\* the override that are strictly less than the duration, in their order.
C6_OverrideFiltered ==
    (sampled /\ manualGiven) =>
        timestamps = SelectSeq(manualTimestamps,
                               LAMBDA t : BeforeEnd(t, duration))

ResolutionErrors == {ErrAxios, ErrTikwm, ErrHttp, ErrStream, ErrTooSmall,
                     ErrNoYtDlp, ErrYtDlp, ErrNotCreated}

\* C7: for a TikTok reference the error of the API strategy never reaches
\* the caller; once that strategy has failed the yt-dlp strategy has been
\* entered, after the API call; and an invocation that fails before probing
\* has seen the API strategy fail and the yt-dlp strategy fail or be absent.
C7_FallbackBeforeFailure ==
    isTikTok =>
        /\ error \notin {ErrAxios, ErrTikwm, ErrHttp, ErrStream, ErrTooSmall}
        /\ "tikwm" \in strategyFailed =>
            /\ InSeq("downloadWithYtDlp", calls)
            /\ Position("resolveTikTokUrl", calls)
                 < Position("downloadWithYtDlp", calls)
        /\ (pc = "failed" /\ error \in ResolutionErrors) =>
            /\ "tikwm" \in strategyFailed
            /\ "yt-dlp" \in strategyFailed \/ ~ytdlpInstalled

\* the API strategy failed, yt-dlp ran and failed, the invocation failed
C7_Witness ==
    /\ isTikTok
    /\ pc = "failed"
    /\ error = ErrYtDlp
    /\ strategyFailed = {"tikwm", "yt-dlp"}
    /\ InSeq("exec", calls)

\* C8: without a yt-dlp binary no subprocess is started, and the missing
\* binary is not what the invocation fails with.
C8_MissingBinarySkipped ==
    ~ytdlpInstalled =>
        /\ ~InSeq("exec", calls)
        /\ error # ErrNoYtDlp

\* C9: a download that ended with status 200 and a file under MinSize bytes
\* has failed with the too-small error, and a download that succeeded saw a
\* file of at least MinSize bytes.
C9_UndersizedRejected ==
    /\ (directSize # -1 /\ directSize < MinSize) => directResult = ErrTooSmall
    /\ directResult = "ok" => directSize >= MinSize
    /\ (~isTikTok /\ directResult = ErrTooSmall) =>
            pc = "failed" /\ error = ErrTooSmall

\* a direct reference answered with status 200 and 999 bytes
C9_Witness ==
    /\ ~isTikTok
    /\ directSize = 999
    /\ pc = "failed"
    /\ error = ErrTooSmall

\* the frames the captures that succeeded so far should have produced
ExpectedFrames ==
    LET ok == SelectSeq([i \in 1..Len(captured) |-> i],
                        LAMBDA i : captured[i])
    IN [k \in 1..Len(ok) |->
           [timestamp |-> timestamps[ok[k]], mimeType |-> "image/jpeg"]]

\* C10: the frame list holds exactly the timestamps whose capture succeeded,
\* in the order of the timestamp list, as image/jpeg; a failed capture never
\* ends the invocation when another capture succeeded, so that only the
\* audio transcode can still fail it, and a return follows an attempt at
\* every timestamp.
C10_PartialFailureTolerated ==
    /\ frames = ExpectedFrames
    /\ (pc = "failed" /\ \E i \in 1..Len(captured) : captured[i]) =>
            error = ErrAudio
    /\ pc = "done" =>
            /\ error = ""
            /\ Len(captured) = Len(timestamps)
            /\ frames # <<>>

\* 2 of 5 captures failed and 3 frames were returned
C10_Witness ==
    /\ pc = "done"
    /\ returned
    /\ Len(timestamps) = 5
    /\ Len(frames) = 3
    /\ captured = <<TRUE, FALSE, TRUE, FALSE, TRUE>>

\* the loop has been through every timestamp of a sampled invocation
loopOver == duration > 0 /\ Len(captured) = Len(timestamps)

Count(x, s) == Cardinality({i \in 1..Len(s) : s[i] = x})

Last(s) == s[Len(s)]

C12_AudioFailureIsFatal ==
    InSeq("audio failed", calls) =>
        /\ pc = "failed"
        /\ error = ErrAudio
        /\ ~returned
        /\ Count("audio", calls) = 1
        /\ videoPath \notin files

\* all five frames were extracted, then the transcode failed
C12_Witness ==
    /\ Len(frames) = 5
    /\ Last(calls) = "audio failed"
    /\ pc = "failed"
    /\ ~returned

running(i) == invPc[i] \in {"downloading", "capturing", "reading",
                            "transcoding"}

\* C13: two invocations that run at the same time have different videoIds,
\* hence different video, frame and audio paths, and neither ever reads,
\* overwrites or deletes a file the other one wrote.
C13_PathsDisjoint ==
    /\ \A i, j \in Invocations :
        (i # j /\ running(i) /\ running(j)) => invId[i] # invId[j]
    /\ foreign = {}

\* C14: every invocation eventually exits, by a return or by a throw.
C14_Terminates == <>exited

\* the errors the stage an invocation stopped at can have raised, that
\* stage being known by the last call started
StageErrors ==
    LET last == Last(calls)
    IN CASE last = "downloadDirect" ->
                {directResult} \cap {ErrAxios, ErrHttp, ErrStream, ErrTooSmall}
         [] last = "downloadWithYtDlp" -> {ErrNoYtDlp}
         [] last = "exec" -> {ErrYtDlp, ErrNotCreated}
         [] last = "ffprobe" ->
                IF duration = 0 THEN {ErrProbe}
                ELSE IF duration = NotAvailable THEN {ErrToFixed}
                ELSE {ErrNoFrames}
         [] last = "audio failed" -> {ErrAudio}
         [] OTHER -> {}

\* C15: a result is returned exactly by an invocation that is done, and
\* then it has at least one frame and the audio of a transcode that did not
\* fail; a failed invocation returned nothing and threw the error of the
\* stage it stopped at, message unchanged; before it exits an invocation has
\* neither returned nor thrown.
C15_ResultOrError ==
    /\ returned <=> pc = "done"
    /\ pc = "done" =>
        /\ error = ""
        /\ frames # <<>>
        /\ Last(calls) = "audio"
    /\ pc = "failed" => error \in StageErrors
    /\ ~exited => error = ""

\* ffprobe could not read the downloaded file
C15_Witness ==
    /\ pc = "failed"
    /\ ~returned
    /\ Last(calls) = "ffprobe"
    /\ error = ErrProbe

\* C16: when the caller that received the result has finished, the audio
\* file returned to it does not exist.
C16_ConsumerDeletesAudio == consumerPc = "finished" => audioPath \notin files

\* C17: whether the timestamps come from an override or from the sampler,
\* the timestamps the loop uses have no duplicates, are at most 5 and are all
\* before the end of the video, and at most 5 frames are collected.
C17_TimestampSetBounded ==
    sampled =>
        /\ \A i, j \in 1..Len(timestamps) :
               i # j => timestamps[i] # timestamps[j]
        /\ Len(timestamps) <= MaxFrames
        /\ \A i \in 1..Len(timestamps) : BeforeEnd(timestamps[i], duration)
        /\ Len(frames) <= MaxFrames

\* C18: the video file that is probed has at least the minimum size,
\* whichever strategy produced it.
C18_ProbedVideoAboveThreshold == pc = "probing" => SizeAccepted(videoBytes)

inLoop == pc \in {"fastSeek", "accurateSeek"}

\* C19: per timestamp one fast capture comes first, the accurate capture
\* starts only from a failed fast capture of the same timestamp and is never
\* repeated, after it the loop moves to the next timestamp, and the loop is
\* left only after the last timestamp.
C19_SeekProtocol ==
    [][hung' = hung =>
         /\ (pc' = "accurateSeek" /\ pc # "accurateSeek") =>
                /\ pc = "fastSeek"
                /\ idx' = idx
                /\ captured' = captured
         /\ pc = "accurateSeek" => pc' # "accurateSeek"
         /\ (inLoop /\ pc' = "fastSeek") =>
                /\ idx' = idx + 1
                /\ Len(captured') = idx
         /\ inLoop => pc' \in {"fastSeek", "accurateSeek", "audio", "failed"}
         /\ (inLoop /\ pc' \in {"audio", "failed"}) =>
                /\ idx = Len(timestamps)
                /\ Len(captured') = Len(timestamps)
         /\ (inLoop /\ pc' = "failed") => error' = ErrNoFrames]_vars

\* the accurate capture of the second timestamp runs, the first timestamp
\* having been skipped
C19_Witness == pc = "accurateSeek" /\ idx = 2 /\ captured = <<FALSE>>

\* C20: at most one frame file of the invocation is on disk at any time.
C20_OneFrameFileAtATime == Cardinality(frameFiles) <= 1

\* the stage a call of extractFrames opens, 0 for what opens none
StageRank(call) ==
    CASE call = "resolveTikTokUrl" -> 1
      [] call \in {"downloadDirect", "downloadWithYtDlp"} -> 2
      [] call = "ffprobe" -> 3
      [] call = "audio" -> 6
      [] OTHER -> 0

\* the stages entered so far, in the order they were entered
stagesEntered ==
    LET opened == SelectSeq(calls, LAMBDA c : StageRank(c) > 0)
    IN [i \in 1..Len(opened) |-> StageRank(opened[i])]

\* C21: the stages are entered in the order Resolving, Downloading, Probing,
\* Sampling, ExtractingFrames, ExtractingAudio, Done, none of them twice, and
\* a failed invocation has deleted the video file.
C21_StagesLinear ==
    /\ StrictlyAscending(stagesEntered)
    /\ (sampled /\ duration > 0) => InSeq(3, stagesEntered)
    /\ pc = "done" => InSeq(6, stagesEntered)
    /\ pc = "failed" => videoPath \notin files

\* the resolution API has answered with a body
answered == apiResponse # <<>>

\* C22: the resolver returns the play URL whenever the answer has one, the
\* hdplay URL only without a play URL, the wmplay URL only without both, and
\* fails when the code is not 0 or none of the three is there.
C22_PlayPreferred ==
    answered =>
        LET resp == apiResponse[1]
            usable == resp.code = 0 /\ resp.hasData
                        /\ (resp.play \/ resp.hdplay \/ resp.wmplay)
        IN /\ usable <=> (pc = "requesting" /\ directUrl # "")
           /\ ~usable <=> "tikwm" \in strategyFailed
           /\ (usable /\ resp.play) => directUrl = "play"
           /\ directUrl = "hdplay" => ~resp.play /\ resp.hdplay
           /\ directUrl = "wmplay" =>
                  ~resp.play /\ ~resp.hdplay /\ resp.wmplay
           /\ (resp.code # 0 \/ ~(resp.play \/ resp.hdplay \/ resp.wmplay)) =>
                  /\ directUrl = ""
                  /\ pc = "failed" => error \in {ErrNoYtDlp}
                  /\ pc # "failed" => pc = "ytdlp"

\* C23: for a reference that is not a TikTok one the resolution API is
\* never called and the subprocess downloader never started, the reference
\* is downloaded directly once, and a failure of that download fails the
\* invocation with the error of the download.
C23_DirectOnly ==
    ~isTikTok =>
        /\ ~InSeq("resolveTikTokUrl", calls)
        /\ ~InSeq("downloadWithYtDlp", calls)
        /\ ~InSeq("exec", calls)
        /\ pc \notin {"resolving", "ytdlp"}
        /\ pc # "start" => calls[1] = "downloadDirect"
        /\ Count("downloadDirect", calls) <= 1
        /\ directResult \notin {"", "ok"} =>
               /\ pc = "failed"
               /\ error = directResult
               /\ Last(calls) = "downloadDirect"

\* the media server has refused the direct download of a plain reference
C23_Witness ==
    /\ ~isTikTok
    /\ pc = "failed"
    /\ directResult = ErrHttp
    /\ calls = <<"downloadDirect">>

\* C24: when the media request is refused (a status axios rejects, or one
\* that is not 200) the download fails in that step with an error, is not
\* streamed, and creates no file at the destination path.
C24_RejectedStatusWritesNothing ==
    [][(pc = "requesting" /\ directResult' \in {ErrAxios, ErrHttp}) =>
         /\ pc' # "streaming"
         /\ videoPath \in files' => videoPath \in files
         /\ videoBytes' = videoBytes
         /\ directSize' = -1
         /\ (IF isTikTok THEN "tikwm" ELSE "direct") \in strategyFailed'
         /\ pc' = "failed" => error' \in {directResult', ErrNoYtDlp}]_vars

\* the resolved URL was refused and the fallback runs with no file on disk
C24_Witness ==
    /\ directResult = ErrHttp
    /\ pc = "ytdlp"
    /\ videoPath \notin files

\* ffprobe has answered and the duration and the timestamps are set
probed == sampled /\ InSeq("ffprobe", calls) /\ error # ErrProbe

\* C25: after a probe without error the duration used for sampling is
\* positive, the fallback of 30 seconds standing in for a duration that the
\* prober did not report, and the default timestamps are then 0, 2, 7, 15,
\* 27; a probe error fails the invocation.
C25_FallbackDuration ==
    /\ probed => duration > 0
    /\ (probed /\ ~manualGiven /\ duration = FallbackDuration) =>
           timestamps = <<0, 2, 7, 15, 27>>
    /\ error = ErrProbe => pc = "failed" /\ timestamps = <<>>

DirectErrors == {ErrAxios, ErrHttp, ErrStream, ErrTooSmall}

\* C26: one invocation calls the resolution API, the direct download and
\* the subprocess downloader at most once each; for a TikTok reference a
\* failed direct download of the resolved URL is followed by exactly one
\* attempt with the subprocess downloader, whose failure fails the
\* invocation.
C26_NoRetryFromSameSource ==
    /\ Count("resolveTikTokUrl", calls) <= 1
    /\ Count("downloadDirect", calls) <= 1
    /\ Count("downloadWithYtDlp", calls) <= 1
    /\ Count("exec", calls) <= 1
    /\ (isTikTok /\ directResult \in DirectErrors) =>
           /\ Count("downloadWithYtDlp", calls) = 1
           /\ Position("downloadDirect", calls)
                < Position("downloadWithYtDlp", calls)
    /\ (~isTikTok /\ directResult \in DirectErrors) => pc = "failed"
    /\ "yt-dlp" \in strategyFailed =>
           /\ pc = "failed"
           /\ error \in {ErrYtDlp, ErrNotCreated}
           /\ Last(calls) = "exec"

\* the resolved URL gave an undersized file and the subprocess downloader,
\* run once, has failed too
C26_Witness ==
    /\ isTikTok
    /\ directResult = ErrTooSmall
    /\ "yt-dlp" \in strategyFailed
    /\ pc = "failed"
    /\ calls = <<"resolveTikTokUrl", "downloadDirect", "downloadWithYtDlp",
                 "exec">>

\* C27: an invocation that ended with an error has left no audio file.
C27_NoAudioAfterError == pc = "failed" => audioPath \notin files

\* C28: when transcribeAudio has returned or thrown, the file at audioPath
\* does not exist.
C28_AudioGoneAfterTranscribe == outcome # "" => audioPath \notin files

NetworkCodes == {"ETIMEDOUT", "ECONNRESET", "ENOTFOUND"}

\* the failures up to the n-th all have a network cause
NetworkUpTo(n) == \A i \in 1..n : failures[i] \in NetworkCodes

\* C29: transcribeAudio makes at most 3 attempts, each further attempt
\* following a failure with a network cause; it returns the transcript at
\* the first attempt that succeeds, throws at a failure with another cause
\* or at the third failure, and has finished only by returning or throwing.
C29_RetryPolicy ==
    /\ attempt <= MaxRetries
    /\ consumerPc = "transcribing" =>
           /\ attempt >= 1
           /\ Len(failures) = attempt - 1
           /\ NetworkUpTo(Len(failures))
           /\ outcome = ""
    /\ outcome = "transcript" =>
           /\ Len(failures) = attempt - 1
           /\ NetworkUpTo(Len(failures))
    /\ (outcome = "error" /\ apiKey) =>
           /\ Len(failures) = attempt
           /\ NetworkUpTo(attempt - 1)
           /\ Last(failures) \notin NetworkCodes \/ attempt = MaxRetries
    /\ (outcome = "error" /\ ~apiKey) => attempt = 0 /\ failures = <<>>
    /\ consumerPc = "finished" <=> outcome # ""

\* three attempts have failed with network causes and the call has thrown
C29_Witness ==
    /\ outcome = "error"
    /\ failures = <<"ETIMEDOUT", "ECONNRESET", "ENOTFOUND">>

\* C30: while the subprocess downloader runs as the fallback of a failed
\* direct download, no file of that download is at the destination path.
C30_FallbackStartsClean ==
    (pc = "ytdlp" /\ directResult \in DirectErrors) => videoPath \notin files

====
